---- MODULE Spec2Model ----
(***************************************************************************)
(* Model of examples/text_classification/tc_dac_bert_ar.ipynb: the         *)
(* notebook that loads the Arabic news corpus, drops empty documents,      *)
(* splits the frame, tokenizes, fine-tunes a BERT sequence classifier,     *)
(* scores the test side and reports classification metrics.                *)
(*                                                                         *)
(* A data frame is a sequence of rows [idx, text, label]; idx is the       *)
(* pandas index of the row.  A text is [isna, chars]: NaN, or a string     *)
(* given as its sequence of characters.                                    *)
(***************************************************************************)
EXTENDS Integers, Sequences, FiniteSets, TLC

VARIABLES
    pc,            \* the next notebook cell to execute
    TRAIN_SIZE,    \* parameters cell: <<numerator, denominator>> of the fraction
    RANDOM_STATE,  \* parameters cell: the seed
    MAX_LEN,       \* parameters cell
    BATCH_SIZE,    \* parameters cell
    NUM_GPUS,      \* parameters cell
    np_random,     \* state of numpy's global generator
    df,            \* the frame
    df_train,
    df_test,
    tokens_train,
    mask_train,
    tokens_test,
    mask_test,
    classifier,    \* Model state of the BERTSequenceClassifier
    preds,
    report,
    accuracy,
    raw,           \* history: the frame as the loader returned it
    ran,           \* history: how many times each cell has run
    log,           \* history: the results of the earlier runs of a cell run again
    out,           \* what the cells have written: the printed metrics, a traceback
    workers        \* the compute workers of a fit or predict in progress

vars == <<pc, TRAIN_SIZE, RANDOM_STATE, MAX_LEN, BATCH_SIZE, NUM_GPUS, np_random, df,
          df_train, df_test, tokens_train, mask_train, tokens_test, mask_test,
          classifier, preds, report, accuracy, raw, ran, log, out, workers>>

params == <<TRAIN_SIZE, RANDOM_STATE, MAX_LEN, BATCH_SIZE, NUM_GPUS>>

data == <<df, df_train, df_test, tokens_train, mask_train, tokens_test,
          mask_test, classifier, preds, report, accuracy>>

\* No fit or predict is in progress.
NoWorkers == [op |-> "idle"]

----------------------------------------------------------------------------
(* Bounds of the model. *)

MaxRows == 4

MaxTextLen == 5

MaxMaxLen == 4

MaxEvalLen == 2

MaxTrainRows == 2

None == "None"

----------------------------------------------------------------------------
(* Generic helpers on sequences. *)

Range(s) == {s[i] : i \in 1..Len(s)}

RECURSIVE SumSeq(_)
SumSeq(s) == IF s = <<>> THEN 0 ELSE Head(s) + SumSeq(Tail(s))

Take(s, k) == SubSeq(s, 1, IF k < Len(s) THEN k ELSE Len(s))

SeqsUpTo(S, n) == UNION {[1..k -> S] : k \in 0..n}

Max0(a) == IF a < 0 THEN 0 ELSE a

----------------------------------------------------------------------------
(* The label schema and the frames the loader can return. *)

labels == <<"culture", "diverse", "economy", "politics", "sports">>

num_labels == Len(labels)

NaN == [isna |-> TRUE, chars |-> <<>>]

Str(s) == [isna |-> FALSE, chars |-> s]

Chars == {"a", " "}

Texts == {NaN} \cup {Str(s) : s \in SeqsUpTo(Chars, MaxTextLen)}

Labels == 0..(num_labels - 1)

Doc(t, l) == [text |-> t, label |-> l]

\* The documents the frames of a whole run are drawn from: one with missing
\* text, one with empty text, and documents of one and two words.
Corpus ==
    {Doc(NaN, 0), Doc(Str(<<>>), 1), Doc(Str(<<"a">>), 0), Doc(Str(<<"a", "a">>), 2),
     Doc(Str(<<"a", " ", "a">>), 3), Doc(Str(<<"a", "a", " ", "a">>), 4)}

\* A frame of two columns; the index of row i is i.
Frames(docs, n) ==
    UNION {{[i \in 1..k |-> [idx |-> i, text |-> d[i].text, label |-> d[i].label]] :
               d \in [1..k -> docs]} : k \in 1..n}

\* load_pandas_df(DATA_FOLDER).sample(NUM_ROWS, random_state=RANDOM_STATE).
\* The corpus holds at least one document with text.
load_pandas_df ==
    {d \in Frames(Corpus, MaxRows) : \E i \in 1..Len(d) : ~d[i].text.isna}

\* df = df[df[text_col].isna() == False]
RECURSIVE RemoveEmpty(_)
RemoveEmpty(d) ==
    IF d = <<>> THEN <<>>
    ELSE IF Head(d).text.isna = FALSE
         THEN <<Head(d)>> \o RemoveEmpty(Tail(d))
         ELSE RemoveEmpty(Tail(d))

----------------------------------------------------------------------------
(* train_test_split(df, train_size=TRAIN_SIZE, random_state=RANDOM_STATE). *)
(* The generator is abstracted to a full-period congruential generator on  *)
(* 64 states; the permutation is the shuffle of 1..n it drives.            *)

RngSeed(seed) == (seed * 13 + 5) % 64

RngNext(g) == (g * 5 + 3) % 64

RngDraw(g, k) == (g \div 4) % k

\* check_random_state: an integer seed <<s>> makes a fresh generator; None,
\* written <<>>, is the global one.
check_random_state(seed, global) == IF seed = <<>> THEN global ELSE RngSeed(seed[1])

Swap(x, i, j) == [x EXCEPT ![i] = x[j], ![j] = x[i]]

\* rng.permutation(n): shuffle(arange(n)); each swap consumes one draw.
RECURSIVE Shuffle(_, _, _)
Shuffle(x, g, i) ==
    IF i < 2 THEN [perm |-> x, rng |-> g]
    ELSE LET g2 == RngNext(g)
         IN  Shuffle(Swap(x, i, RngDraw(g2, i) + 1), g2, i - 1)

Permutation(g, n) == Shuffle([i \in 1..n |-> i], g, n)

\* n_train = floor(train_size * n_samples)
NTrain(f, n) == (f[1] * n) \div f[2]

\* (a test size that stays at a quarter of the rows, rounded up, whatever
\* train_size is)
NTestQuarter(f, n) == (n + 3) \div 4

\* test_size is None: n_test = n_samples - n_train
NTest(f, n) == n - NTrain(f, n)

\* The keyword argument random_state=RANDOM_STATE of the split cell.
SplitRandomStateUnseeded(seed) == <<>>

SplitRandomState(seed) == <<seed>>

\* ind_test = permutation[:n_test]; ind_train = permutation[n_test:n_test+n_train]
\* The result carries the global generator as the call leaves it.
train_test_split(d, f, seed, global) ==
    LET n == Len(d)
        p == Permutation(check_random_state(seed, global), n)
        nte == NTest(f, n)
        ntr == NTrain(f, n)
    IN  [train |-> [i \in 1..ntr |-> d[p.perm[nte + i]]],
         test  |-> [i \in 1..nte |-> d[p.perm[i]]],
         global |-> IF seed = <<>> THEN p.rng ELSE global]

----------------------------------------------------------------------------
(* Tokenizer(LANGUAGE).tokenize and preprocess_classification_tokens.      *)
(* A token is a maximal run of non-blank characters; its id is a function  *)
(* of the token.  Ids 0, 101 and 102 are the reserved pad, start and end.  *)

PAD == 0

CLS == 101

SEP == 102

\* df[text_col].astype(str): NaN becomes the string "nan".
AsStr(t) == IF t.isna THEN <<"n", "a", "n">> ELSE t.chars

RECURSIVE SplitWords(_, _)
SplitWords(cs, cur) ==
    IF cs = <<>> THEN (IF cur = <<>> THEN <<>> ELSE <<cur>>)
    ELSE IF Head(cs) = " "
         THEN (IF cur = <<>> THEN <<>> ELSE <<cur>>) \o SplitWords(Tail(cs), <<>>)
         ELSE SplitWords(Tail(cs), Append(cur, Head(cs)))

\* tokenizer.tokenize(list of strings): one token list per string.
tokenize(texts) == [i \in 1..Len(texts) |-> SplitWords(texts[i], <<>>)]

CharCode(c) == IF c = "a" THEN 1 ELSE IF c = "n" THEN 2 ELSE 3

\* convert_tokens_to_ids: the vocabulary index of a content token (above the
\* reserved ids).
VocabId(w) == 102 + SumSeq([i \in 1..Len(w) |-> CharCode(w[i]) * i])

\* One token list: truncate the content to max_len - 2, prepend the start and
\* append the end token, pad with the pad id up to max_len.
PreprocessOne(x, max_len) ==
    LET content == Take(x, Max0(max_len - 2))
        real == <<CLS>> \o [i \in 1..Len(content) |-> VocabId(content[i])] \o <<SEP>>
        npad == Max0(max_len - Len(real))
    IN  [ids  |-> real \o [i \in 1..npad |-> PAD],
         mask |-> [i \in 1..Len(real) |-> 1] \o [i \in 1..npad |-> 0]]

\* preprocess_classification_tokens(tokens, max_len): (token ids, input mask)
preprocess_classification_tokens(tokens, max_len) ==
    [ids  |-> [i \in 1..Len(tokens) |-> PreprocessOne(tokens[i], max_len).ids],
     mask |-> [i \in 1..Len(tokens) |-> PreprocessOne(tokens[i], max_len).mask]]

----------------------------------------------------------------------------
(* BERTSequenceClassifier: Model state is the parameter vector, abstracted *)
(* to a residue; a row's logits are a function of the parameters and of    *)
(* the row's unmasked token ids.                                           *)

NUM_EPOCHS == 1

Min(a, b) == IF a < b THEN a ELSE b

\* BERTSequenceClassifier(language, num_labels, cache_dir): pretrained weights
\* and a fresh head.
BERTSequenceClassifier == [weights |-> 0, state |-> "Uninitialized"]

RowScore(ids, mask) == SumSeq([k \in 1..Len(ids) |-> ids[k] * mask[k]])

\* One gradient step on the mini-batch of rows lo..hi.
GradientStep(w, ids, mask, labs, lo, hi) ==
    (w + SumSeq([k \in 1..(hi - lo + 1) |->
                    RowScore(ids[lo + k - 1], mask[lo + k - 1]) + labs[lo + k - 1] + 1])) % 7

\* One pass over the training set in mini-batches of batch_size, from row i.
RECURSIVE FitEpoch(_, _, _, _, _, _)
FitEpoch(w, ids, mask, labs, batch_size, i) ==
    IF i > Len(ids) THEN w
    ELSE FitEpoch(GradientStep(w, ids, mask, labs, i, Min(i + batch_size - 1, Len(ids))),
                  ids, mask, labs, batch_size, i + batch_size)

RECURSIVE FitEpochs(_, _, _, _, _, _)
FitEpochs(w, ids, mask, labs, batch_size, epochs) ==
    IF epochs = 0 THEN w
    ELSE FitEpochs(FitEpoch(w, ids, mask, labs, batch_size, 1),
                   ids, mask, labs, batch_size, epochs - 1)

\* classifier.fit(token_ids, input_mask, labels, num_epochs, batch_size):
\* the Model state it leaves.
fit(c, ids, mask, labs, num_epochs, batch_size) ==
    [weights |-> FitEpochs(c.weights, ids, mask, labs, batch_size, num_epochs),
     state   |-> "Trained"]

\* The predicted label of one row: the argmax of its logits.
PredictRow(w, ids, mask) == (w + RowScore(ids, mask)) % num_labels

\* The labels of the mini-batches from row i on, concatenated in order.
RECURSIVE PredictBatches(_, _, _, _, _)
PredictBatches(w, ids, mask, batch_size, i) ==
    IF i > Len(ids) THEN <<>>
    ELSE LET hi == Min(i + batch_size - 1, Len(ids))
         IN  [k \in 1..(hi - i + 1) |-> PredictRow(w, ids[i + k - 1], mask[i + k - 1])]
             \o PredictBatches(w, ids, mask, batch_size, i + batch_size)

\* (a predict that keeps the running state of its forward passes in the
\* parameters)
PredictStateStateful(c, ids, mask, batch_size) ==
    [c EXCEPT !.weights = (c.weights + Len(ids)) % 7]

\* The Model state predict leaves: the one it was given.
PredictState(c, ids, mask, batch_size) == c

\* classifier.predict(token_ids, input_mask, batch_size): one label per row,
\* or ShapeMismatch when ids and mask disagree in length.
predict(c, ids, mask, batch_size) ==
    IF Len(ids) # Len(mask) THEN [error |-> "ShapeMismatch", labels |-> <<>>]
    ELSE [error |-> None,
          labels |-> PredictBatches(c.weights, ids, mask, batch_size, 1)]

----------------------------------------------------------------------------
(* classification_report(y_true, y_pred, target_names=labels,              *)
(* output_dict=True) and accuracy_score(y_true, y_pred).  A ratio is a     *)
(* pair <<numerator, denominator>>; a ratio with denominator 0 is reported *)
(* as 0.                                                                   *)

Ratio(a, b) == IF b = 0 THEN <<0, 1>> ELSE <<a, b>>

REq(x, y) == x[1] * y[2] = y[1] * x[2]

\* unique_labels(y_true, y_pred): the labels that occur, in increasing order.
RECURSIVE SortedSeq(_)
SortedSeq(S) ==
    IF S = {} THEN <<>>
    ELSE LET m == CHOOSE x \in S : \A y \in S : x <= y
         IN  <<m>> \o SortedSeq(S \ {m})

unique_labels(y_true, y_pred) == SortedSeq(Range(y_true) \cup Range(y_pred))

TP(y_true, y_pred, c) ==
    Cardinality({i \in 1..Len(y_true) : y_true[i] = c /\ y_pred[i] = c})

PredSum(y_pred, c) == Cardinality({i \in 1..Len(y_pred) : y_pred[i] = c})

TrueSum(y_true, c) == Cardinality({i \in 1..Len(y_true) : y_true[i] = c})

\* f1 = 2PR / (P + R), 0 when P + R = 0
FScore(p, r) == Ratio(2 * p[1] * r[1], p[1] * r[2] + r[1] * p[2])

\* precision_recall_fscore_support(..., average=None) for class c
ClassRow(y_true, y_pred, c) ==
    LET p == Ratio(TP(y_true, y_pred, c), PredSum(y_pred, c))
        r == Ratio(TP(y_true, y_pred, c), TrueSum(y_true, c))
    IN  [precision |-> p, recall |-> r, f1 |-> FScore(p, r),
         support |-> TrueSum(y_true, c)]

\* precision_recall_fscore_support(..., average='micro'): the counts pooled
\* over the classes cs.
MicroPrecision(y_true, y_pred, cs) ==
    Ratio(SumSeq([i \in 1..Len(cs) |-> TP(y_true, y_pred, cs[i])]),
          SumSeq([i \in 1..Len(cs) |-> PredSum(y_pred, cs[i])]))

MicroRecall(y_true, y_pred, cs) ==
    Ratio(SumSeq([i \in 1..Len(cs) |-> TP(y_true, y_pred, cs[i])]),
          SumSeq([i \in 1..Len(cs) |-> TrueSum(y_true, cs[i])]))

\* The report: labels is None, so the classes are the labels that occur; a
\* class count that differs from len(target_names) raises ValueError.  The
\* rows pair the names with the classes in order.
classification_report(y_true, y_pred, target_names) ==
    LET cs == unique_labels(y_true, y_pred)
    IN  IF Len(cs) # Len(target_names)
        THEN [error |-> "ValueError", rows |-> <<>>, micro |-> <<>>]
        ELSE [error |-> None,
              rows  |-> [i \in 1..Len(cs) |->
                            [name |-> target_names[i]] @@ ClassRow(y_true, y_pred, cs[i])],
              micro |-> LET p == MicroPrecision(y_true, y_pred, cs)
                            r == MicroRecall(y_true, y_pred, cs)
                        IN  [precision |-> p, recall |-> r, f1 |-> FScore(p, r),
                             support |-> Len(y_true)]]

\* (accuracy_score(..., normalize=False): the number of positions that agree)
AccuracyCount(y_true, y_pred) ==
    <<Cardinality({i \in 1..Len(y_true) : y_true[i] = y_pred[i]}), 1>>

\* accuracy_score(y_true, y_pred): the fraction of positions that agree.
accuracy_score(y_true, y_pred) ==
    Ratio(Cardinality({i \in 1..Len(y_true) : y_true[i] = y_pred[i]}), Len(y_true))

----------------------------------------------------------------------------
(* The notebook's cells, in the order of the file. *)

\* (scoring placed before training)
CellOrderScoreFirst ==
    <<"load", "filter", "split", "tokenize", "preprocess", "create", "predict",
      "fit", "evaluate">>

CellOrder ==
    <<"load", "filter", "split", "tokenize", "preprocess", "create", "fit",
      "predict", "evaluate">>

Cells == Range(CellOrder)

Position(c) == CHOOSE i \in 1..Len(CellOrder) : CellOrder[i] = c

\* The cell executed after cell c; "done" after the last one.
After(c) == IF Position(c) = Len(CellOrder) THEN "done" ELSE CellOrder[Position(c) + 1]

Ran(c) == [ran EXCEPT ![c] = @ + 1]

LabelCol(d) == [i \in 1..Len(d) |-> d[i].label]

\* (a run that goes on to the next cell after a cell raised)
OnErrorContinue(c) == After(c)

\* Where the run goes when cell c raises: no cell catches an exception, so
\* the run ends there.
OnError(c) == "failed"

\* The traceback of an uncaught exception e, as the cell writes it.
Traceback(e) == [kind |-> "error", value |-> e]

\* print("accuracy: {}".format(accuracy))
\* print(json.dumps(report, indent=4, sort_keys=True))
PrintMetrics(a, r) == <<[kind |-> "accuracy", value |-> a], [kind |-> "report", value |-> r]>>

\* df = load_pandas_df(DATA_FOLDER).sample(NUM_ROWS, random_state=RANDOM_STATE)
LoadCell ==
    /\ pc = "load"
    /\ \E d \in load_pandas_df : df' = d /\ raw' = d
    /\ pc' = After("load")
    /\ ran' = Ran("load")
    /\ UNCHANGED <<params, np_random, df_train, df_test, tokens_train, mask_train,
                   tokens_test, mask_test, classifier, preds, report, accuracy, log, out, workers>>

\* df = df[df[text_col].isna() == False]
FilterCell ==
    /\ pc = "filter"
    /\ df' = RemoveEmpty(df)
    /\ pc' = After("filter")
    /\ ran' = Ran("filter")
    /\ UNCHANGED <<params, raw, np_random, df_train, df_test, tokens_train, mask_train,
                   tokens_test, mask_test, classifier, preds, report, accuracy, log, out, workers>>

\* df_train, df_test = train_test_split(df, train_size=TRAIN_SIZE,
\*                                      random_state=RANDOM_STATE)
SplitCell ==
    /\ pc = "split"
    /\ LET r == train_test_split(df, TRAIN_SIZE, SplitRandomState(RANDOM_STATE), np_random)
       IN  /\ df_train' = r.train
           /\ df_test' = r.test
           /\ np_random' = r.global
    /\ pc' = After("split")
    /\ ran' = Ran("split")
    /\ UNCHANGED <<params, raw, df, tokens_train, mask_train, tokens_test, mask_test,
                   classifier, preds, report, accuracy, log, out, workers>>

\* tokens_train = tokenizer.tokenize(list(df_train[text_col].astype(str)))
\* tokens_test = tokenizer.tokenize(list(df_test[text_col].astype(str)))
TokenizeCell ==
    /\ pc = "tokenize"
    /\ tokens_train' = tokenize([i \in 1..Len(df_train) |-> AsStr(df_train[i].text)])
    /\ tokens_test' = tokenize([i \in 1..Len(df_test) |-> AsStr(df_test[i].text)])
    /\ pc' = After("tokenize")
    /\ ran' = Ran("tokenize")
    /\ UNCHANGED <<params, raw, np_random, df, df_train, df_test, mask_train, mask_test,
                   classifier, preds, report, accuracy, log, out, workers>>

\* (the max_len argument left out: the tokenizer's own default length)
PreprocessMaxLenDefault(m) == MaxMaxLen + 1

\* The max_len argument of the preprocessing cell: MAX_LEN.
PreprocessMaxLen(m) == m

\* tokens_train, mask_train, _ = tokenizer.preprocess_classification_tokens(
\*     tokens_train, MAX_LEN); the same for the test side.
PreprocessCell ==
    /\ pc = "preprocess"
    /\ LET tr == preprocess_classification_tokens(tokens_train, PreprocessMaxLen(MAX_LEN))
           te == preprocess_classification_tokens(tokens_test, PreprocessMaxLen(MAX_LEN))
       IN  /\ tokens_train' = tr.ids
           /\ mask_train' = tr.mask
           /\ tokens_test' = te.ids
           /\ mask_test' = te.mask
    /\ pc' = After("preprocess")
    /\ ran' = Ran("preprocess")
    /\ UNCHANGED <<params, raw, np_random, df, df_train, df_test, classifier, preds,
                   report, accuracy, log, out, workers>>

\* classifier = BERTSequenceClassifier(language=LANGUAGE, num_labels=num_labels,
\*                                     cache_dir=BERT_CACHE_DIR)
CreateCell ==
    /\ pc = "create"
    /\ classifier' = BERTSequenceClassifier
    /\ pc' = After("create")
    /\ ran' = Ran("create")
    /\ UNCHANGED <<params, raw, np_random, df, df_train, df_test, tokens_train, mask_train,
                   tokens_test, mask_test, preds, report, accuracy, log, out, workers>>

\* classifier.fit(token_ids=tokens_train, input_mask=mask_train,
\*                labels=list(df_train[label_col]), num_gpus=NUM_GPUS,
\*                num_epochs=NUM_EPOCHS,
\*                batch_size=BATCH_SIZE)
FitCell ==
    /\ pc = "fit"
    /\ classifier' = fit(classifier, tokens_train, mask_train, LabelCol(df_train),
                         NUM_EPOCHS, BATCH_SIZE)
    /\ pc' = After("fit")
    /\ ran' = Ran("fit")
    /\ UNCHANGED <<params, raw, np_random, df, df_train, df_test, tokens_train, mask_train,
                   tokens_test, mask_test, preds, report, accuracy, log, out, workers>>

\* (the training side scored instead of the test side)
ScoreTokensTrain(train, test) == train

\* The token_ids argument of the scoring cell: tokens_test.
ScoreTokens(train, test) == test

ScoreMask(train, test) == test

\* preds = classifier.predict(token_ids=tokens_test, input_mask=mask_test,
\*                            num_gpus=NUM_GPUS, batch_size=BATCH_SIZE)
\* A ShapeMismatch ends the run; preds stays unassigned.
PredictCell ==
    /\ pc = "predict"
    /\ LET ids == ScoreTokens(tokens_train, tokens_test)
           mask == ScoreMask(mask_train, mask_test)
           r == predict(classifier, ids, mask, BATCH_SIZE)
       IN  /\ classifier' = PredictState(classifier, ids, mask, BATCH_SIZE)
           /\ IF r.error = None
              THEN preds' = r.labels /\ pc' = After("predict") /\ out' = out
              ELSE /\ preds' = preds
                   /\ pc' = OnError("predict")
                   /\ out' = Append(out, Traceback(r.error))
    /\ ran' = Ran("predict")
    /\ UNCHANGED <<params, raw, np_random, df, df_train, df_test, tokens_train, mask_train,
                   tokens_test, mask_test, report, accuracy, log, workers>>

\* report = classification_report(df_test[label_col], preds, target_names=labels,
\*                                output_dict=True)
\* accuracy = accuracy_score(df_test[label_col], preds)
\* print("accuracy: {}".format(accuracy))
\* print(json.dumps(report, indent=4, sort_keys=True))
\* An exception of the first line ends the run before the lines after it.
EvaluateCell ==
    /\ pc = "evaluate"
    /\ LET r == classification_report(LabelCol(df_test), preds, labels)
       IN  IF r.error = None
           THEN /\ report' = r
                /\ accuracy' = accuracy_score(LabelCol(df_test), preds)
                /\ out' = out \o PrintMetrics(accuracy', report')
                /\ pc' = After("evaluate")
           ELSE /\ report' = report
                /\ accuracy' = accuracy
                /\ out' = Append(out, Traceback(r.error))
                /\ pc' = OnError("evaluate")
    /\ ran' = Ran("evaluate")
    /\ UNCHANGED <<params, raw, np_random, df, df_train, df_test, tokens_train, mask_train,
                   tokens_test, mask_test, classifier, preds, log, workers>>

----------------------------------------------------------------------------
(* One run of the notebook, top to bottom. *)

Fractions == {<<1, 4>>, <<1, 2>>, <<4, 5>>}

Seeds == {0, 2}

Unset == [c \in Cells |-> 0]

NoReport == [error |-> "unset", rows |-> <<>>, micro |-> <<>>]

InitData ==
    /\ df = <<>> /\ df_train = <<>> /\ df_test = <<>>
    /\ tokens_train = <<>> /\ mask_train = <<>>
    /\ tokens_test = <<>> /\ mask_test = <<>>
    /\ classifier = [weights |-> 0, state |-> "Undefined"]
    /\ preds = <<>>
    /\ raw = <<>>
    /\ report = NoReport
    /\ accuracy = <<0, 0>>
    /\ ran = Unset
    /\ log = <<>>
    /\ out = <<>>
    /\ workers = NoWorkers

Init ==
    /\ pc = "load"
    /\ TRAIN_SIZE \in Fractions
    /\ RANDOM_STATE \in Seeds
    /\ MAX_LEN \in {3}
    /\ BATCH_SIZE \in {2}
    /\ NUM_GPUS \in {2}
    /\ np_random \in {17}
    /\ InitData

Next ==
    \/ LoadCell
    \/ FilterCell
    \/ SplitCell
    \/ TokenizeCell
    \/ PreprocessCell
    \/ CreateCell
    \/ FitCell
    \/ PredictCell
    \/ EvaluateCell

Spec == Init /\ [][Next]_vars

----------------------------------------------------------------------------
(* The splitter applied again to the same frame, fraction and seed, after  *)
(* other code has drawn from numpy's global generator.                     *)

MaxReruns == 2

GlobalDraws == {17, 40}

RerunSplit ==
    /\ pc = After("split")
    /\ Len(log) < MaxReruns
    /\ log' = Append(log, [train |-> df_train, test |-> df_test])
    /\ \E g \in GlobalDraws : np_random' = g
    /\ pc' = "split"
    /\ UNCHANGED <<params, raw, ran, data, out, workers>>

AllRan(cs) == [c \in Cells |-> IF c \in cs THEN 1 ELSE 0]

\* Documents with text: the frames the filter leaves.
SplitDocs == {Doc(Str(<<"a">>), 0), Doc(Str(<<>>), 1)}

SplitInit ==
    /\ pc = "split"
    /\ TRAIN_SIZE \in Fractions
    /\ RANDOM_STATE \in Seeds
    /\ MAX_LEN \in {3}
    /\ BATCH_SIZE \in {2}
    /\ NUM_GPUS \in {2}
    /\ np_random \in GlobalDraws
    /\ df \in Frames(SplitDocs, MaxRows)
    /\ raw = df
    /\ df_train = <<>> /\ df_test = <<>>
    /\ tokens_train = <<>> /\ mask_train = <<>>
    /\ tokens_test = <<>> /\ mask_test = <<>>
    /\ classifier = [weights |-> 0, state |-> "Undefined"]
    /\ preds = <<>>
    /\ report = NoReport
    /\ accuracy = <<0, 0>>
    /\ ran = AllRan({"load", "filter"})
    /\ log = <<>>
    /\ out = <<>>
    /\ workers = NoWorkers

SplitNext ==
    \/ SplitCell
    \/ RerunSplit

SplitSpec == SplitInit /\ [][SplitNext]_vars

----------------------------------------------------------------------------
(* Properties of the split. *)

Idx(d) == {d[i].idx : i \in 1..Len(d)}

SplitMade == ran["split"] >= 1 /\ pc # "split"

\* C1: once the split cell has run, Train and Test share no row, neither holds
\* a row twice, and together they hold exactly the rows of the loaded frame
\* that the empty-document filter keeps (the frame the split was given).
C1_SplitPartitionsFilteredFrame ==
    SplitMade =>
        /\ Idx(df_train) \cap Idx(df_test) = {}
        /\ Cardinality(Idx(df_train)) = Len(df_train)
        /\ Cardinality(Idx(df_test)) = Len(df_test)
        /\ Range(df_train) \cup Range(df_test) = Range(RemoveEmpty(raw))
        /\ Range(df_train) \cup Range(df_test) = Range(df)
        /\ Len(df_train) + Len(df_test) = Len(df)

C1_Witness ==
    /\ SplitMade
    /\ Len(df_train) >= 1
    /\ Len(df_test) >= 2
    /\ Len(raw) > Len(df)
    /\ df_test[1].idx > df_test[2].idx

\* C2: every run of the split on the same frame, fraction and seed yields the
\* same Train and the same Test, whatever the state of the global generator.
C2_SplitDeterministic ==
    /\ \A i, j \in 1..Len(log) : log[i] = log[j]
    /\ SplitMade => \A i \in 1..Len(log) :
                        log[i] = [train |-> df_train, test |-> df_test]

C2_Witness ==
    /\ SplitMade
    /\ Len(log) = MaxReruns
    /\ Len(df_train) >= 2
    /\ Len(df_test) >= 2
    /\ np_random # 17

\* C3: once the split is made, the filter has run before it and neither Train
\* nor Test holds a row whose text is missing or is the empty string.
C3_NoMissingOrEmptyText ==
    SplitMade =>
        /\ ran["filter"] >= 1
        /\ \A r \in Range(df_train) \cup Range(df_test) :
               ~r.text.isna /\ r.text.chars # <<>>

----------------------------------------------------------------------------
(* Order of the stages of a run. *)

\* The cells that are the Loader, the Splitter, the Tokenizer Adapter, fit,
\* predict and the Evaluator.
Stages == <<"load", "split", "preprocess", "fit", "predict", "evaluate">>

\* C10: in every run no cell runs twice; a stage has run only if its
\* predecessor has run (Loader, Splitter, Tokenizer Adapter, fit, predict,
\* Evaluator); predict starts only on a trained Model state; and a report or
\* an accuracy exists only after predict has returned its labels.
C10_StagesInOrderOnce ==
    /\ \A c \in Cells : ran[c] <= 1
    /\ \A i \in 1..(Len(Stages) - 1) : ran[Stages[i + 1]] >= 1 => ran[Stages[i]] = 1
    /\ \A i \in 1..Len(Stages) : pc = Stages[i] => ran[Stages[i]] = 0
    /\ ran["predict"] >= 1 => classifier.state = "Trained"
    /\ (report # NoReport \/ accuracy # <<0, 0>>) =>
           /\ ran["predict"] = 1
           /\ ran["evaluate"] = 1
           /\ Len(preds) = Len(df_test)

C10_Witness ==
    /\ pc = "done"
    /\ report.error = None
    /\ \A c \in Cells : ran[c] = 1

----------------------------------------------------------------------------
(* The tokenizer adapter on one text and one max_len: the tokenize cell    *)
(* followed by the preprocessing cell.                                     *)

OneRow(t) == <<[idx |-> 1, text |-> t, label |-> 0]>>

TokInit ==
    /\ pc = "tokenize"
    /\ TRAIN_SIZE \in {<<4, 5>>}
    /\ RANDOM_STATE \in {0}
    /\ MAX_LEN \in 0..MaxMaxLen
    /\ BATCH_SIZE \in {2}
    /\ NUM_GPUS \in {2}
    /\ np_random \in {17}
    /\ \E t \in Texts \ {NaN} : df_test = OneRow(t)
    /\ df_train = df_test
    /\ df = df_test
    /\ raw = df
    /\ tokens_train = <<>> /\ mask_train = <<>>
    /\ tokens_test = <<>> /\ mask_test = <<>>
    /\ classifier = [weights |-> 0, state |-> "Undefined"]
    /\ preds = <<>>
    /\ report = NoReport
    /\ accuracy = <<0, 0>>
    /\ ran = AllRan({"load", "filter", "split"})
    /\ log = <<>>
    /\ out = <<>>
    /\ workers = NoWorkers

TokNext ==
    \/ TokenizeCell
    \/ PreprocessCell

TokSpec == TokInit /\ [][TokNext]_vars

Preprocessed == ran["preprocess"] >= 1

\* The tokens of the text of row i of the test side.
TextTokens(i) == SplitWords(AsStr(df_test[i].text), <<>>)

\* ids and mask of a row have exactly MAX_LEN entries, the mask is binary, it
\* sums to at most MAX_LEN, and to at least 2 when the text is not empty.
ShapeOK(ids, mask, t) ==
    /\ Len(ids) = MAX_LEN
    /\ Len(mask) = MAX_LEN
    /\ \A k \in 1..Len(mask) : mask[k] \in {0, 1}
    /\ SumSeq(mask) <= MAX_LEN
    /\ t.chars # <<>> => SumSeq(mask) >= 2

AllShapesOK ==
    /\ Len(tokens_test) = Len(df_test) /\ Len(mask_test) = Len(df_test)
    /\ Len(tokens_train) = Len(df_train) /\ Len(mask_train) = Len(df_train)
    /\ \A i \in 1..Len(df_test) : ShapeOK(tokens_test[i], mask_test[i], df_test[i].text)
    /\ \A i \in 1..Len(df_train) : ShapeOK(tokens_train[i], mask_train[i], df_train[i].text)

\* C4 as claimed: for every text and every max_len, the adapter returns ids of
\* exactly max_len entries and a binary mask of exactly max_len entries whose
\* sum is at most max_len and, for a non-empty text, at least 2.
C4_ShapeForEveryMaxLen == Preprocessed => AllShapesOK

\* C4 amended: the same for every max_len of at least 2, the lengths that hold
\* the two boundary tokens.
C4_ShapeForMaxLenAtLeast2 == (Preprocessed /\ MAX_LEN >= 2) => AllShapesOK

C4_Witness ==
    /\ Preprocessed
    /\ MAX_LEN = 4
    /\ \E i \in 1..Len(df_test) :
           /\ Len(TextTokens(i)) = 1
           /\ SumSeq(mask_test[i]) = 3

\* k content tokens of row i survive: the start token is first, the first k
\* tokens of the text follow it, the end token follows them, the rest is
\* padding.
Survive(ids, x, k) ==
    /\ Len(ids) >= k + 2
    /\ ids[1] = CLS
    /\ \A j \in 1..k : ids[1 + j] = VocabId(x[j])
    /\ ids[k + 2] = SEP
    /\ \A j \in (k + 3)..Len(ids) : ids[j] = PAD

TruncationOK(ids, x) ==
    /\ \E k \in 0..Len(x) : k <= MAX_LEN - 2 /\ Survive(ids, x, k)
    /\ (MAX_LEN = 3 /\ Len(x) >= 2) => ids = <<CLS, VocabId(x[1]), SEP>>

AllTruncationsOK ==
    \A i \in 1..Len(df_test) : TruncationOK(tokens_test[i], TextTokens(i))

\* C5 as claimed: for every text and every max_len M at most M - 2 content
\* tokens survive, between the start token and the end token; with M = 3 a
\* text of two or more tokens becomes start, its first token, end.
C5_TruncationForEveryMaxLen == Preprocessed => AllTruncationsOK

\* C5 amended: the same for every max_len of at least 2.
C5_TruncationForMaxLenAtLeast2 == (Preprocessed /\ MAX_LEN >= 2) => AllTruncationsOK

C5_Witness ==
    /\ Preprocessed
    /\ MAX_LEN = 3
    /\ \E i \in 1..Len(df_test) :
           /\ Len(TextTokens(i)) >= 2
           /\ TextTokens(i)[1] # TextTokens(i)[2]
           /\ tokens_test[i] = <<CLS, VocabId(TextTokens(i)[1]), SEP>>

----------------------------------------------------------------------------
(* The classifier wrapper: construction, fit, and predict applied once or  *)
(* again to the same test side.                                            *)

BatchSizes == {1, 2, 3}

TrainDocs == {Doc(Str(<<"a">>), 0), Doc(Str(<<"a", " ", "a">>), 3)}

TestDocs == {Doc(Str(<<"a">>), 0), Doc(Str(<<"a", "a">>), 2), Doc(Str(<<"a", " ", "a">>), 3)}

RerunPredict ==
    /\ pc = After("predict")
    /\ Len(log) < MaxReruns
    /\ log' = Append(log, preds)
    /\ pc' = "predict"
    /\ UNCHANGED <<params, raw, np_random, ran, data, out, workers>>

ClassifierInit ==
    /\ pc = "tokenize"
    /\ TRAIN_SIZE \in {<<4, 5>>}
    /\ RANDOM_STATE \in {0}
    /\ MAX_LEN \in {3}
    /\ BATCH_SIZE \in BatchSizes
    /\ NUM_GPUS \in {2}
    /\ np_random \in {17}
    /\ df_train \in Frames(TrainDocs, MaxTrainRows)
    /\ df_test \in Frames(TestDocs, MaxRows)
    /\ df = df_train \o df_test
    /\ raw = df
    /\ tokens_train = <<>> /\ mask_train = <<>>
    /\ tokens_test = <<>> /\ mask_test = <<>>
    /\ classifier = [weights |-> 0, state |-> "Undefined"]
    /\ preds = <<>>
    /\ report = NoReport
    /\ accuracy = <<0, 0>>
    /\ ran = AllRan({"load", "filter", "split"})
    /\ log = <<>>
    /\ out = <<>>
    /\ workers = NoWorkers

ClassifierNext ==
    \/ TokenizeCell
    \/ PreprocessCell
    \/ CreateCell
    \/ FitCell
    \/ PredictCell
    \/ RerunPredict

ClassifierSpec == ClassifierInit /\ [][ClassifierNext]_vars

C7_OneLabelPerRowInOrder ==
    (ran["predict"] >= 1 /\ pc = After("predict")) =>
        /\ Len(preds) = Len(df_test)
        /\ \A i \in 1..Len(df_test) :
               /\ preds[i] \in Labels
               /\ preds[i] = PredictRow(classifier.weights,
                                        PreprocessOne(TextTokens(i), MAX_LEN).ids,
                                        PreprocessOne(TextTokens(i), MAX_LEN).mask)

C7_Witness ==
    /\ ran["predict"] >= 1
    /\ pc = After("predict")
    /\ BATCH_SIZE = 2
    /\ Len(df_test) = 3
    /\ preds[1] # preds[3]

----------------------------------------------------------------------------
(* The evaluation cell on given true and predicted labels.                 *)

LabelFrame(y) == [i \in 1..Len(y) |-> [idx |-> i, text |-> Str(<<"a">>), label |-> y[i]]]

ScenarioTrue == <<4, 0, 0, 4, 0>>

ScenarioPred == <<4, 0, 0, 4, 1>>

\* One true instance of every class.
EveryClassOnce == [i \in 1..num_labels |-> i - 1]

\* Equal-length label sequences of 1..MaxEvalLen labels, the test sets that
\* hold every class once with every prediction for them, and the scenario.
EvalInputs ==
    UNION {[1..k -> Labels] \X [1..k -> Labels] : k \in 1..MaxEvalLen}
        \cup ({EveryClassOnce} \X [1..num_labels -> Labels])
        \cup {<<ScenarioTrue, ScenarioPred>>}

EvalInit ==
    /\ pc = "evaluate"
    /\ TRAIN_SIZE \in {<<4, 5>>}
    /\ RANDOM_STATE \in {0}
    /\ MAX_LEN \in {3}
    /\ BATCH_SIZE \in {2}
    /\ NUM_GPUS \in {2}
    /\ np_random \in {17}
    /\ \E y \in EvalInputs : df_test = LabelFrame(y[1]) /\ preds = y[2]
    /\ df_train = <<>>
    /\ df = df_test
    /\ raw = df
    /\ tokens_train = <<>> /\ mask_train = <<>>
    /\ tokens_test = <<>> /\ mask_test = <<>>
    /\ classifier = [weights |-> 0, state |-> "Trained"]
    /\ report = NoReport
    /\ accuracy = <<0, 0>>
    /\ ran = AllRan(Cells \ {"evaluate"})
    /\ log = <<>>
    /\ out = <<>>
    /\ workers = NoWorkers

EvalNext == EvaluateCell

EvalSpec == EvalInit /\ [][EvalNext]_vars

Reported == ran["evaluate"] >= 1 /\ report.error = None

\* The fraction of the positions at which the predicted label is the true one.
Agreement ==
    <<Cardinality({i \in 1..Len(preds) : preds[i] = df_test[i].label}), Len(preds)>>

\* The micro averages of a pair of label arrays equal its accuracy.
MicroIsAccuracy(y_true, y_pred) ==
    LET cs == unique_labels(y_true, y_pred)
        p == MicroPrecision(y_true, y_pred, cs)
        r == MicroRecall(y_true, y_pred, cs)
        a == accuracy_score(y_true, y_pred)
    IN  /\ a[2] > 0 /\ p[2] > 0 /\ r[2] > 0 /\ FScore(p, r)[2] > 0
        /\ REq(a, p) /\ REq(a, r) /\ REq(a, FScore(p, r))

\* C8: for every pair of true and predicted label arrays the micro-average
\* precision, recall and F1 over the classes that occur equal the accuracy;
\* and in every report the evaluation cell produces, the micro-average row
\* equals the accuracy the cell computes, which is the fraction of positions
\* where predicted = true.
C8_AccuracyEqualsMicroAverage ==
    /\ MicroIsAccuracy(LabelCol(df_test), preds)
    /\ Reported =>
           /\ accuracy[2] > 0
           /\ REq(accuracy, Agreement)
           /\ REq(accuracy, report.micro.precision)
           /\ REq(accuracy, report.micro.recall)
           /\ REq(accuracy, report.micro.f1)

C8_Witness ==
    /\ Reported
    /\ REq(accuracy, <<3, 5>>)
    /\ REq(report.micro.f1, <<3, 5>>)
    /\ Cardinality(Range(preds)) = 4

\* C9: once the evaluation cell has run there is a report that has, for each
\* name of the label list, a row with recall TP/(TP+FN) and the support of the
\* class of that index; for true labels [4,0,0,4,0] and predictions [4,0,0,4,1]
\* the accuracy is 4/5, the recall of "culture" 2/3 and its support 3.
C9_ReportPerClassName ==
    ran["evaluate"] >= 1 =>
        /\ report.error = None
        /\ \A c \in Labels :
               \E i \in 1..Len(report.rows) :
                   /\ report.rows[i].name = labels[c + 1]
                   /\ report.rows[i].support = TrueSum(LabelCol(df_test), c)
                   /\ REq(report.rows[i].recall,
                          Ratio(TP(LabelCol(df_test), preds, c),
                                TrueSum(LabelCol(df_test), c)))
        /\ (LabelCol(df_test) = ScenarioTrue /\ preds = ScenarioPred) =>
               /\ REq(accuracy, <<4, 5>>) /\ accuracy[2] > 0
               /\ \E i \in 1..Len(report.rows) :
                      /\ report.rows[i].name = "culture"
                      /\ REq(report.rows[i].recall, <<2, 3>>)
                      /\ report.rows[i].support = 3

----------------------------------------------------------------------------
(* A run in which a stage may fail.  The loader, the tokenizer and the     *)
(* classifier raise the conditions of the error taxonomy when their        *)
(* environment fails them; ShapeMismatch and the evaluator's ValueError    *)
(* come from the arguments the cells pass.  No cell has a try or a loop    *)
(* around its call.                                                        *)

\* Cell c raises e: the traceback is written and nothing is assigned.
Raise(c, e) ==
    /\ pc = c
    /\ pc' = OnError(c)
    /\ ran' = Ran(c)
    /\ out' = Append(out, Traceback(e))

\* load_pandas_df cannot fetch or read the corpus.
LoadCellRaises ==
    /\ Raise("load", "DataUnavailable")
    /\ UNCHANGED <<params, raw, np_random, data, log, workers>>

\* Tokenizer(LANGUAGE, cache_dir=BERT_CACHE_DIR) finds no vocabulary.
TokenizeCellRaises ==
    /\ Raise("tokenize", "UnsupportedLanguage")
    /\ UNCHANGED <<params, raw, np_random, data, log, workers>>

\* The Model state a fit leaves that ran out of memory in its first pass,
\* after the mini-batches before row i.
FitInterrupted(c, ids, mask, labs, batch_size, i) ==
    [c EXCEPT !.weights = FitEpoch(c.weights, Take(ids, i - 1), Take(mask, i - 1),
                                   Take(labs, i - 1), batch_size, 1)]

\* classifier.fit runs out of memory at one of its mini-batches.
FitCellRaises ==
    /\ Raise("fit", "ResourceExhausted")
    /\ \E k \in 0..Len(tokens_train) :
           /\ k % BATCH_SIZE = 0
           /\ k < Len(tokens_train)
           /\ classifier' = FitInterrupted(classifier, tokens_train, mask_train,
                                           LabelCol(df_train), BATCH_SIZE, k + 1)
    /\ UNCHANGED <<params, raw, np_random, df, df_train, df_test, tokens_train, mask_train,
                   tokens_test, mask_test, preds, report, accuracy, log, workers>>

\* classifier.predict runs out of memory; preds stays unassigned.
PredictCellRaises ==
    /\ Raise("predict", "ResourceExhausted")
    /\ UNCHANGED <<params, raw, np_random, data, log, workers>>

FailInit ==
    /\ pc = "load"
    /\ TRAIN_SIZE \in {<<1, 4>>, <<1, 2>>}
    /\ RANDOM_STATE \in {0}
    /\ MAX_LEN \in {3}
    /\ BATCH_SIZE \in {1}
    /\ NUM_GPUS \in {2}
    /\ np_random \in {17}
    /\ InitData

FailNext ==
    \/ LoadCell
    \/ LoadCellRaises
    \/ FilterCell
    \/ SplitCell
    \/ TokenizeCell
    \/ TokenizeCellRaises
    \/ PreprocessCell
    \/ CreateCell
    \/ FitCell
    \/ FitCellRaises
    \/ PredictCell
    \/ PredictCellRaises
    \/ EvaluateCell

FailSpec == FailInit /\ [][FailNext]_vars

\* A cell has raised.
Failed == \E i \in 1..Len(out) : out[i].kind = "error"

\* Metrics, or a part of them, have been written.
Emitted == \E i \in 1..Len(out) : out[i].kind \in {"accuracy", "report"}

\* The cells up to the k-th have run once and the cells after it not at all.
RanUpTo(k) == \A i \in 1..Len(CellOrder) : ran[CellOrder[i]] = IF i <= k THEN 1 ELSE 0

\* C11: once a stage has failed the run is over in the error outcome: the
\* traceback is the last and only thing written, no cell can run any more, the
\* cells before the failing one ran once and the cells after it never, and no
\* report and no accuracy has been computed or written; metrics are written
\* only by a run in which every cell ran once and none failed.
C11_AllOrNothing ==
    /\ Failed =>
           /\ pc = "failed"
           /\ ~ENABLED FailNext
           /\ Cardinality({i \in 1..Len(out) : out[i].kind = "error"}) = 1
           /\ out[Len(out)].kind = "error"
           /\ \E k \in 1..Len(CellOrder) : RanUpTo(k)
           /\ ~Emitted
           /\ report = NoReport
           /\ accuracy = <<0, 0>>
    /\ Emitted =>
           /\ pc = "done"
           /\ RanUpTo(Len(CellOrder))
           /\ out = PrintMetrics(accuracy, report)

\* A run that trained the classifier and then failed while scoring.
C11_Witness ==
    /\ pc = "failed"
    /\ out = <<Traceback("ResourceExhausted")>>
    /\ classifier.state = "Trained"
    /\ RanUpTo(Position("predict"))
    /\ preds = <<>>
    /\ Len(df_test) >= 2

----------------------------------------------------------------------------
(* fit and predict step by step.  Each mini-batch is scattered over the    *)
(* compute workers, the workers run in any interleaving, and their results *)
(* are gathered before the next mini-batch is scattered.                   *)

MaxWorkers == 2

MaxWorkerRows == 3

\* The workers of a call with num_gpus devices: the CPU alone when there is
\* no device.
WorkerIds(num_gpus) == 1..(IF num_gpus = 0 THEN 1 ELSE num_gpus)

CeilDiv(a, b) == (a + b - 1) \div b

\* The rows of the mini-batch lo..hi that worker w of n takes: equal chunks
\* in worker order, the last ones shorter or empty.
Shard(lo, hi, n, w) ==
    LET c == CeilDiv(hi - lo + 1, n)
    IN  {r \in lo..hi : lo + (w - 1) * c <= r /\ r < lo + w * c}

NoResult == [r \in {} |-> 0]

\* The operands of the call in progress.
CallIds == IF workers.op = "fit" THEN tokens_train ELSE tokens_test

CallMask == IF workers.op = "fit" THEN mask_train ELSE mask_test

\* The last row of the mini-batch that starts at row workers.i.
BatchHi == Min(workers.i + BATCH_SIZE - 1, Len(CallIds))

\* The state of a call as it starts on its first mini-batch.
Begin(op) ==
    [op    |-> op,
     epoch |-> 1,
     i     |-> 1,
     phase |-> "scatter",
     shard |-> [w \in WorkerIds(NUM_GPUS) |-> {}],
     st    |-> [w \in WorkerIds(NUM_GPUS) |-> "idle"],
     seen  |-> [w \in WorkerIds(NUM_GPUS) |-> 0],
     res   |-> [w \in WorkerIds(NUM_GPUS) |-> NoResult],
     acc   |-> <<>>]

\* classifier.fit(..., num_gpus=NUM_GPUS, ...) is entered.
FitBegin ==
    /\ pc = "fit"
    /\ workers.op = "idle"
    /\ workers' = Begin("fit")
    /\ UNCHANGED <<pc, params, raw, np_random, ran, data, log, out>>

\* classifier.predict(..., num_gpus=NUM_GPUS, ...) is entered.
PredictBegin ==
    /\ pc = "predict"
    /\ workers.op = "idle"
    /\ Len(tokens_test) = Len(mask_test)
    /\ workers' = Begin("predict")
    /\ UNCHANGED <<pc, params, raw, np_random, ran, data, log, out>>

\* The next mini-batch is split over the workers.
Scatter ==
    /\ workers.op # "idle"
    /\ workers.phase = "scatter"
    /\ workers.i <= Len(CallIds)
    /\ LET W == DOMAIN workers.st
           sh == [w \in W |-> Shard(workers.i, BatchHi, Cardinality(W), w)]
       IN  workers' = [workers EXCEPT
                          !.phase = "run",
                          !.shard = sh,
                          !.st = [w \in W |-> IF sh[w] = {} THEN workers.st[w] ELSE "ready"]]
    /\ UNCHANGED <<pc, params, raw, np_random, ran, data, log, out>>

\* Worker w starts its forward pass on its replica of the parameters.
WorkerStart(w) ==
    /\ workers.op # "idle"
    /\ workers.st[w] = "ready"
    /\ workers' = [workers EXCEPT !.st[w] = "running", !.seen[w] = classifier.weights]
    /\ UNCHANGED <<pc, params, raw, np_random, ran, data, log, out>>

\* Worker w finishes its shard: per row, the gradient contribution in a fit
\* and the predicted label in a predict.
WorkerFinish(w) ==
    /\ workers.op # "idle"
    /\ workers.st[w] = "running"
    /\ LET labs == LabelCol(df_train)
           r == [row \in workers.shard[w] |->
                    IF workers.op = "fit"
                    THEN RowScore(CallIds[row], CallMask[row]) + labs[row] + 1
                    ELSE PredictRow(workers.seen[w], CallIds[row], CallMask[row])]
       IN  workers' = [workers EXCEPT !.st[w] = "done", !.res[w] = r]
    /\ UNCHANGED <<pc, params, raw, np_random, ran, data, log, out>>

\* (a join that goes on as soon as one worker has finished)
JoinedAny(st) == \E w \in DOMAIN st : st[w] = "done"

\* The join of a mini-batch: every worker that has a shard has finished.
Joined(st) == \A w \in DOMAIN st : st[w] \in {"idle", "done"}

\* The results of the joined workers are put together in row order; a fit
\* applies the one update of the mini-batch, a predict appends its labels.
Gather ==
    /\ workers.op # "idle"
    /\ workers.phase = "run"
    /\ Joined(workers.st)
    /\ LET W == DOMAIN workers.st
           done == {w \in W : workers.st[w] = "done"}
           rows == SortedSeq(UNION {DOMAIN workers.res[w] : w \in done})
           val(row) == workers.res[CHOOSE w \in done : row \in DOMAIN workers.res[w]][row]
           vals == [k \in 1..Len(rows) |-> val(rows[k])]
           next == workers.i + BATCH_SIZE
           again == workers.op = "fit" /\ next > Len(CallIds) /\ workers.epoch < NUM_EPOCHS
       IN  /\ classifier' = IF workers.op = "fit"
                            THEN [classifier EXCEPT !.weights = (@ + SumSeq(vals)) % 7]
                            ELSE classifier
           /\ workers' = [workers EXCEPT
                             !.phase = "scatter",
                             !.i = IF again THEN 1 ELSE next,
                             !.epoch = IF again THEN @ + 1 ELSE @,
                             !.st = [w \in W |-> IF w \in done THEN "idle" ELSE workers.st[w]],
                             !.shard = [w \in W |-> IF w \in done THEN {} ELSE workers.shard[w]],
                             !.res = [w \in W |-> IF w \in done THEN NoResult ELSE workers.res[w]],
                             !.acc = IF workers.op = "fit" THEN @ ELSE @ \o vals]
    /\ UNCHANGED <<pc, params, raw, np_random, ran, df, df_train, df_test, tokens_train,
                   mask_train, tokens_test, mask_test, preds, report, accuracy, log, out>>

\* fit returns after its last mini-batch.
FitEnd ==
    /\ workers.op = "fit"
    /\ workers.phase = "scatter"
    /\ workers.i > Len(tokens_train)
    /\ classifier' = [classifier EXCEPT !.state = "Trained"]
    /\ workers' = NoWorkers
    /\ pc' = After("fit")
    /\ ran' = Ran("fit")
    /\ UNCHANGED <<params, raw, np_random, df, df_train, df_test, tokens_train, mask_train,
                   tokens_test, mask_test, preds, report, accuracy, log, out>>

\* predict returns the labels of all mini-batches; preds is assigned.
PredictEnd ==
    /\ workers.op = "predict"
    /\ workers.phase = "scatter"
    /\ workers.i > Len(tokens_test)
    /\ preds' = workers.acc
    /\ workers' = NoWorkers
    /\ pc' = After("predict")
    /\ ran' = Ran("predict")
    /\ UNCHANGED <<params, raw, np_random, df, df_train, df_test, tokens_train, mask_train,
                   tokens_test, mask_test, classifier, report, accuracy, log, out>>

\* The tokens and masks the preprocessing cell leaves for frame d.
Prepared(d, max_len) ==
    preprocess_classification_tokens(tokenize([i \in 1..Len(d) |-> AsStr(d[i].text)]),
                                     max_len)

WorkerInit ==
    /\ pc = "fit"
    /\ TRAIN_SIZE \in {<<4, 5>>}
    /\ RANDOM_STATE \in {0}
    /\ MAX_LEN \in {3}
    /\ BATCH_SIZE \in BatchSizes
    /\ NUM_GPUS \in 0..MaxWorkers
    /\ np_random \in {17}
    /\ df_train \in Frames(TrainDocs, MaxWorkerRows)
    /\ df_test \in Frames(TrainDocs, MaxWorkerRows)
    /\ df = df_train \o df_test
    /\ raw = df
    /\ tokens_train = Prepared(df_train, MAX_LEN).ids
    /\ mask_train = Prepared(df_train, MAX_LEN).mask
    /\ tokens_test = Prepared(df_test, MAX_LEN).ids
    /\ mask_test = Prepared(df_test, MAX_LEN).mask
    /\ classifier = BERTSequenceClassifier
    /\ preds = <<>>
    /\ report = NoReport
    /\ accuracy = <<0, 0>>
    /\ ran = AllRan({"load", "filter", "split", "tokenize", "preprocess", "create"})
    /\ log = <<>>
    /\ out = <<>>
    /\ workers = NoWorkers

WorkerNext ==
    \/ FitBegin
    \/ PredictBegin
    \/ Scatter
    \/ \E w \in WorkerIds(NUM_GPUS) : WorkerStart(w)
    \/ \E w \in WorkerIds(NUM_GPUS) : WorkerFinish(w)
    \/ Gather
    \/ FitEnd
    \/ PredictEnd

WorkerSpec == WorkerInit /\ [][WorkerNext]_vars

\* A fit or predict is in progress.
Active == workers.op # "idle"

\* While the workers run, their shards are pairwise disjoint and together are
\* the rows of the current mini-batch.
ShardsPartitionBatch ==
    (Active /\ workers.phase = "run") =>
        /\ workers.i <= BatchHi
        /\ \A v, w \in DOMAIN workers.shard :
               v # w => workers.shard[v] \cap workers.shard[w] = {}
        /\ UNION {workers.shard[w] : w \in DOMAIN workers.shard} = workers.i..BatchHi

\* Between two mini-batches no worker holds a shard, runs or has a result
\* that was not gathered.
NoWorkerBetweenBatches ==
    (Active /\ workers.phase = "scatter") =>
        \A w \in DOMAIN workers.st :
            /\ workers.st[w] = "idle"
            /\ workers.shard[w] = {}
            /\ workers.res[w] = NoResult

\* The parameters a running or finished worker read are still the Model state.
ReplicaIsModelState ==
    Active => \A w \in DOMAIN workers.st :
                  workers.st[w] \in {"running", "done"} => workers.seen[w] = classifier.weights

\* Model state after fit and the labels after predict are those of the
\* mini-batches taken one after the other.
SameAsOneWorker ==
    /\ ran["fit"] = 1 =>
           classifier = fit(BERTSequenceClassifier, tokens_train, mask_train,
                            LabelCol(df_train), NUM_EPOCHS, BATCH_SIZE)
    /\ ran["predict"] = 1 =>
           preds = predict(classifier, tokens_test, mask_test, BATCH_SIZE).labels

\* The parameters change only in the gather step of a fit, when every worker
\* of the mini-batch has finished, and by the whole mini-batch's update.
OneUpdatePerBatch ==
    classifier'.weights # classifier.weights =>
        /\ workers.op = "fit"
        /\ workers.phase = "run"
        /\ workers'.phase = "scatter"
        /\ \A w \in DOMAIN workers.st :
               IF workers.shard[w] = {} THEN workers.st[w] = "idle"
               ELSE workers.st[w] = "done"
        /\ classifier'.weights =
               GradientStep(classifier.weights, tokens_train, mask_train,
                            LabelCol(df_train), workers.i, BatchHi)

\* C12: in fit and in predict, for every worker count, the shards of a
\* mini-batch are pairwise disjoint and cover it, no worker holds or runs
\* anything between two mini-batches (all results of one are gathered before
\* the next is scattered), and under every interleaving of the workers the
\* parameters are changed only by the gather step of a fit, once per
\* mini-batch, never by a worker; the outcome is that of one worker.
C12_ForkJoinPerBatch ==
    /\ [](/\ ShardsPartitionBatch
          /\ NoWorkerBetweenBatches
          /\ ReplicaIsModelState
          /\ SameAsOneWorker)
    /\ [][OneUpdatePerBatch]_vars

\* Two workers run at once on shards of two rows and one row of the second
\* call, after a fit that changed the parameters.
C12_Witness ==
    /\ workers.op = "predict"
    /\ NUM_GPUS = 2
    /\ workers.st[1] = "running"
    /\ workers.st[2] = "running"
    /\ Cardinality(workers.shard[1]) = 2
    /\ Cardinality(workers.shard[2]) = 1
    /\ classifier.state = "Trained"
    /\ classifier.weights # 0

====
